---- MODULE Spec2Model ----
(***************************************************************************)
(* Model of the deployment orchestrator of project1_TDS:                   *)
(*   src/main.py        process_json_request, post_with_retry, deploy      *)
(*   src/repo_utils.py  subprocess_run_safe, create_and_setup_repo         *)
(*                                                                         *)
(* The server handles one request at a time: deploy (main.py:260-267) is   *)
(* an async handler that calls the blocking process_json_request without   *)
(* awaiting, so a request runs to its response before the next is read.    *)
(* Strings are sequences of characters; an optional JSON field is a set    *)
(* with at most one element (the empty set is the absent field).           *)
(***************************************************************************)
EXTENDS Integers, Sequences, FiniteSets, TLC

\* ---------------------------------------------------------------- bounds
\* Largest max_wait argument tried by the post_with_retry specification.
MaxWaitArg == 130

\* Longest raw response text, in tokens.
MaxRawLen == 6

\* Number of Round-1 pipelines running at the same time.
NumPipelines == 2

\* ------------------------------------------------------- program constants
DelayInit == 2
DelayCap == 60
DefaultMaxWait == 600
HttpOk == 200

ExpectedSecret == "abcd1234"
UnknownCommit == "unknown_commit"

\* ------------------------------------------------------------ value domains
\* Python's None for a name, and the state of /tmp/last_round1_repo.txt when
\* the file does not exist.
NoName == <<"<None>">>
NoFile == <<"<no file>">>

\* Task identifiers a caller may send: a plain one and one padded with a space.
Tasks == {<<"a">>, <<"b", " ">>}
\* The optional existing_repo_name field: absent, the empty string, a name.
ExistingNames == {{}, {<<>>}, {<<"c">>}}
Secrets == {{}, {ExpectedSecret}, {"wrong"}}
Rounds == {{}, {1}, {2}, {3}}
\* What one POST to the evaluation URL can produce: a response with a status
\* code, or a transport exception raised by requests.post.
Responded(st) == [raised |-> FALSE, status |-> st]
TransportError == [raised |-> TRUE, status |-> 0]
NoOutcome == [raised |-> FALSE, status |-> 0]
PostOutcomes == {Responded(200), Responded(201), Responded(500), TransportError}

Min(a, b) == IF a < b THEN a ELSE b

RECURSIVE Sum(_)
Sum(s) == IF s = <<>> THEN 0 ELSE Head(s) + Sum(Tail(s))

\* dict.get(key, default) of a JSON object field.
Get(field, default) == IF field = {} THEN default ELSE CHOOSE x \in field : TRUE

IsSpace(c) == c = " "

RECURSIVE LStrip(_)
LStrip(s) == IF s # <<>> /\ IsSpace(Head(s)) THEN LStrip(Tail(s)) ELSE s

RECURSIVE RStrip(_)
RStrip(s) ==
  IF s # <<>> /\ IsSpace(s[Len(s)]) THEN RStrip(SubSeq(s, 1, Len(s) - 1)) ELSE s

\* str.strip()
Strip(s) == RStrip(LStrip(s))

\* Python truthiness of an optional string: None and "" are falsy.
Falsy_OnlyNone(field) == field = {}
Falsy(field) == field = {} \/ field = {<<>>}

\* The pipelines that run at the same time, and their generated documents.
Pipelines == 1..NumPipelines
Documents == {<<"x">>, <<"y">>}
NotUploaded == <<"<not uploaded>">>

\* f"https://{GITHUB_USERNAME}.github.io/{name}/"
PagesUrl(name) == <<"https://user.github.io/">> \o name \o <<"/">>

\* f"https://github.com/{GITHUB_USERNAME}/{name}"
RepoUrl(name) == <<"https://github.com/user/">> \o name

VARIABLES
  req,             \* the JSON body being processed
  pc,              \* position of the handler
  exc,             \* exception propagating out of process_json_request
  response,        \* HTTP status returned to the caller, 0 while none
  responseRepo,    \* the "repo" field of a success response
  slot,            \* content of /tmp/last_round1_repo.txt, NoFile if missing
  slotWriters,     \* tasks whose Round 1 has written the slot so far
  lastProvisioned, \* name of the latest artifact create_and_setup_repo completed
  prevR1,          \* artifact name of the preceding request if it was a
                   \* Round 1 that returned success, else NoName
  repo_name, repo_dir, pages_url, commit_sha,   \* locals of the handler
  existing_repo_name,                            \* resolved Round-2 target
  ws,              \* the invocation's workspace: "none", "exists", "deleted"
  wsDeletes,       \* number of deletions of that workspace
  failed,          \* stages whose command reported failure in this invocation
  calls,           \* external calls issued by this invocation
  payload,         \* notification payload handed to post_with_retry
  caller,          \* who called post_with_retry: "r1", "r2" or "none"
  max_wait, delay, total_wait,                   \* locals of post_with_retry
  sleeps,          \* the delays slept so far, in order
  nAttempts,       \* POSTs issued by the current post_with_retry call
  lastStatus,      \* outcome of the latest POST, NoOutcome once it is handled
  postResult,      \* return value of post_with_retry: "none", "True", "False"
  raw,             \* response.text of the generation call, as tokens
  html_content,    \* what generate_html_from_brief returns for raw
  hf_token,        \* is HF_UBUNTU_TOKEN set
  hf_pc,           \* position of each pipeline inside deploy_to_huggingface
  hf_html,         \* the html_content argument of each pipeline's call
  hf_file,         \* content of /tmp/index.html, NoFile if missing
  hf_uploaded,     \* the document each pipeline's upload_file sent
  hf_result        \* return value of each call: "none", "url" or "None"

reqVars == <<req, exc, response, responseRepo>>
stateVars == <<slot, slotWriters, lastProvisioned, prevR1>>
localVars == <<repo_name, repo_dir, pages_url, commit_sha, existing_repo_name>>
wsVars == <<ws, wsDeletes>>
retryVars == <<max_wait, delay, total_wait, sleeps, nAttempts, lastStatus, postResult>>
extractVars == <<raw, html_content>>
hfVars == <<hf_token, hf_pc, hf_html, hf_file, hf_uploaded, hf_result>>
vars == <<reqVars, pc, stateVars, localVars, wsVars, failed, calls, payload,
          caller, retryVars, extractVars, hfVars>>

NoCalls ==
  [gen |-> 0, create |-> 0, clone |-> 0, commit |-> 0, push |-> 0,
   pages |-> 0, hf |-> 0, slotWrite |-> 0, mkdtemp |-> 0, fallback |-> 0]

NoReq == [secret |-> {}, round |-> {}, task |-> <<>>, existing_repo_name |-> {}]
NoPayload == [round |-> 0, repo_url |-> NoName, commit_sha |-> "None", pages_url |-> NoName]

\* ---------------------------------------------------------- post_with_retry
\* while total_wait < max_wait
BudgetLeft_Inclusive(t, m) == t <= m
BudgetLeft(t, m) == t < m

\* r.status_code == 200
IsSuccess_Any2xx(st) == st >= 200 /\ st < 300
IsSuccess(st) == st = HttpOk

\* delay = min(delay * 2, 60)
NextDelay_Uncapped(d) == d * 2
NextDelay(d) == Min(d * 2, DelayCap)

\* Where control goes when post_with_retry returns.
ReturnPc(c) == IF c = "r1" THEN "r1_finally" ELSE IF c = "r2" THEN "r2_finally" ELSE "post_done"

\* delay = 2; total_wait = 0
PostEnter ==
  /\ pc = "post_enter"
  /\ delay' = DelayInit
  /\ total_wait' = 0
  /\ sleeps' = <<>>
  /\ nAttempts' = 0
  /\ lastStatus' = NoOutcome
  /\ postResult' = "none"
  /\ pc' = "post_loop"
  /\ UNCHANGED <<reqVars, stateVars, localVars, wsVars, failed, calls, payload,
                 caller, max_wait>>
  /\ UNCHANGED extractVars
  /\ UNCHANGED hfVars

\* The loop test; leaving the loop returns False.
PostLoop ==
  /\ pc = "post_loop"
  /\ IF BudgetLeft(total_wait, max_wait)
       THEN /\ pc' = "post_try"
            /\ UNCHANGED postResult
       ELSE /\ postResult' = "False"
            /\ pc' = ReturnPc(caller)
  /\ UNCHANGED <<reqVars, stateVars, localVars, wsVars, failed, calls, payload,
                 caller, max_wait, delay, total_wait, sleeps, nAttempts, lastStatus>>
  /\ UNCHANGED extractVars
  /\ UNCHANGED hfVars

\* requests.post inside try/except Exception: a 200 returns True, any other
\* status and any exception fall through to the sleep.
PostTry ==
  /\ pc = "post_try"
  /\ \E out \in PostOutcomes :
       /\ lastStatus' = out
       /\ nAttempts' = nAttempts + 1
       /\ IF ~out.raised /\ IsSuccess(out.status)
            THEN /\ postResult' = "True"
                 /\ pc' = ReturnPc(caller)
            ELSE /\ pc' = "post_sleep"
                 /\ UNCHANGED postResult
  /\ UNCHANGED <<reqVars, stateVars, localVars, wsVars, failed, calls, payload,
                 caller, max_wait, delay, total_wait, sleeps>>
  /\ UNCHANGED extractVars
  /\ UNCHANGED hfVars

\* time.sleep(delay); total_wait += delay; delay = min(delay * 2, 60)
PostSleep ==
  /\ pc = "post_sleep"
  /\ sleeps' = Append(sleeps, delay)
  /\ total_wait' = total_wait + delay
  /\ delay' = NextDelay(delay)
  /\ lastStatus' = NoOutcome
  /\ pc' = "post_loop"
  /\ UNCHANGED <<reqVars, stateVars, localVars, wsVars, failed, calls, payload,
                 caller, max_wait, nAttempts, postResult>>
  /\ UNCHANGED extractVars
  /\ UNCHANGED hfVars

\* ------------------------------------------- post_with_retry on its own
InitRetry ==
  /\ req = NoReq
  /\ pc = "post_enter"
  /\ exc = "none"
  /\ response = 0
  /\ responseRepo = NoName
  /\ slot = NoFile
  /\ slotWriters = {}
  /\ lastProvisioned = NoName
  /\ prevR1 = NoName
  /\ repo_name = NoName
  /\ repo_dir = "None"
  /\ pages_url = NoName
  /\ commit_sha = "None"
  /\ existing_repo_name = NoName
  /\ ws = "none"
  /\ wsDeletes = 0
  /\ failed = {}
  /\ calls = NoCalls
  /\ payload = NoPayload
  /\ caller = "none"
  /\ max_wait \in (0..MaxWaitArg) \cup {DefaultMaxWait}
  /\ delay = 0
  /\ total_wait = 0
  /\ sleeps = <<>>
  /\ nAttempts = 0
  /\ lastStatus = NoOutcome
  /\ postResult = "none"
  /\ raw = <<>>
  /\ html_content = NoName
  /\ hf_token = TRUE
  /\ hf_pc = [w \in Pipelines |-> "idle"]
  /\ hf_html = [w \in Pipelines |-> <<>>]
  /\ hf_file = NoFile
  /\ hf_uploaded = [w \in Pipelines |-> NotUploaded]
  /\ hf_result = [w \in Pipelines |-> "none"]

NextRetry == PostEnter \/ PostLoop \/ PostTry \/ PostSleep

SpecRetry == InitRetry /\ [][NextRetry]_vars


\* ------------------------------------------------------- process_json_request
Inc(f) == [calls EXCEPT ![f] = @ + 1]

\* round_num = json_data.get("round", 1)
RoundNum == Get(req.round, 1)

\* secret != expected_secret, with secret = json_data.get("secret")
SecretMatches_AbsentPasses(secret) == secret = {} \/ secret = {ExpectedSecret}
SecretMatches(secret) == secret = {ExpectedSecret}

\* The five git commands both rounds run, in order, and the stage each
\* belongs to.
CmdList_NoPush == <<"config_name", "config_email", "add", "commit">>
CmdList == <<"config_name", "config_email", "add", "commit", "push">>
Stage(cmd) == IF cmd \in {"commit", "push"} THEN cmd ELSE "setup"
Ran(cmd, n) == IF \E i \in 1..n : CmdList[i] = cmd THEN 1 ELSE 0

\* return result, code  ->  JSONResponse(result, status_code=code)
Return(code, repo) ==
  /\ response' = code
  /\ responseRepo' = repo
  /\ prevR1' = IF code = HttpOk /\ RoundNum = 1 THEN repo ELSE NoName
  /\ pc' = "done"

\* Raise, had deploy no except clause: the exception ends the handler and no
\* JSONResponse is produced.
Raise_Unhandled(e) ==
  /\ exc' = e
  /\ response' = 0
  /\ responseRepo' = NoName
  /\ prevR1' = NoName
  /\ pc' = "done"

\* An exception leaving process_json_request is caught by deploy, which
\* answers 500.
Raise(e) ==
  /\ exc' = e
  /\ response' = 500
  /\ responseRepo' = NoName
  /\ prevR1' = NoName
  /\ pc' = "done"

Init ==
  /\ req = NoReq
  /\ pc = "idle"
  /\ exc = "none"
  /\ response = 0
  /\ responseRepo = NoName
  /\ slot = NoFile
  /\ slotWriters = {}
  /\ lastProvisioned = NoName
  /\ prevR1 = NoName
  /\ repo_name = NoName
  /\ repo_dir = "None"
  /\ pages_url = NoName
  /\ commit_sha = "None"
  /\ existing_repo_name = NoName
  /\ ws = "none"
  /\ wsDeletes = 0
  /\ failed = {}
  /\ calls = NoCalls
  /\ payload = NoPayload
  /\ caller = "none"
  /\ max_wait = 0
  /\ delay = 0
  /\ total_wait = 0
  /\ sleeps = <<>>
  /\ nAttempts = 0
  /\ lastStatus = NoOutcome
  /\ postResult = "none"
  /\ raw = <<>>
  /\ html_content = NoName
  /\ hf_token = TRUE
  /\ hf_pc = [w \in Pipelines |-> "idle"]
  /\ hf_html = [w \in Pipelines |-> <<>>]
  /\ hf_file = NoFile
  /\ hf_uploaded = [w \in Pipelines |-> NotUploaded]
  /\ hf_result = [w \in Pipelines |-> "none"]

\* deploy reads the next JSON body and calls process_json_request, which
\* reads the fields it uses; existing_repo_name is read in Round 2 only.
Receive ==
  /\ pc \in {"idle", "done"}
  /\ \E s \in Secrets, r \in Rounds, t \in Tasks, e \in ExistingNames :
       /\ (Get(r, 1) # 2 => e = {})
       /\ req' = [secret |-> s, round |-> r, task |-> t, existing_repo_name |-> e]
  /\ pc' = "gate"
  /\ exc' = "none"
  /\ response' = 0
  /\ responseRepo' = NoName
  /\ repo_name' = NoName
  /\ repo_dir' = "None"
  /\ pages_url' = NoName
  /\ commit_sha' = "None"
  /\ existing_repo_name' = NoName
  /\ ws' = "none"
  /\ wsDeletes' = 0
  /\ failed' = {}
  /\ calls' = NoCalls
  /\ payload' = NoPayload
  /\ caller' = "none"
  /\ max_wait' = 0
  /\ delay' = 0
  /\ total_wait' = 0
  /\ sleeps' = <<>>
  /\ nAttempts' = 0
  /\ lastStatus' = NoOutcome
  /\ postResult' = "none"
  /\ UNCHANGED stateVars
  /\ UNCHANGED extractVars
  /\ UNCHANGED hfVars

\* The secret comparison, then the dispatch on round_num. A round that is
\* neither 1 nor 2 falls off the end of the function: it returns None, which
\* deploy cannot unpack.
SecretGate ==
  /\ pc = "gate"
  /\ IF ~SecretMatches(req.secret)
       THEN Return(401, NoName) /\ UNCHANGED exc
       ELSE IF RoundNum = 1
         THEN pc' = "r1_generate" /\ UNCHANGED <<reqVars, prevR1>>
         ELSE IF RoundNum = 2
           THEN pc' = "r2_resolve" /\ UNCHANGED <<reqVars, prevR1>>
           ELSE Raise("TypeError")
  /\ UNCHANGED <<req, slot, slotWriters, lastProvisioned, localVars, wsVars, failed, calls,
                 payload, caller, retryVars>>
  /\ UNCHANGED extractVars
  /\ UNCHANGED hfVars

\* ------------------------------------------------------------------ Round 1
\* repo_name = f"{task}"; html_output = generate_html_from_brief(...), which
\* raises when the generation call fails; then the locals of line 156.
R1Generate ==
  /\ pc = "r1_generate"
  /\ calls' = Inc("gen")
  /\ repo_name' = req.task
  /\ \/ /\ pc' = "r1_create"
        /\ repo_dir' = "None"
        /\ pages_url' = NoName
        /\ commit_sha' = UnknownCommit
        /\ UNCHANGED <<reqVars, prevR1>>
     \/ /\ Raise("GenerationError")
        /\ UNCHANGED <<repo_dir, pages_url, commit_sha>>
  /\ UNCHANGED <<req, slot, slotWriters, lastProvisioned, existing_repo_name, wsVars, failed,
                 payload, caller, retryVars>>
  /\ UNCHANGED extractVars
  /\ UNCHANGED hfVars

\* create_and_setup_repo step 1: gh repo create. A failed command (None) and
\* a successful one that printed nothing ("") both return the failure triple.
R1Create ==
  /\ pc = "r1_create"
  /\ calls' = Inc("create")
  /\ \E out \in {"None", "", "url"} :
       IF out \in {"None", ""}
         THEN /\ repo_dir' = "None"
              /\ pages_url' = NoName
              /\ commit_sha' = "None"
              /\ failed' = failed \cup {"create"}
              /\ pc' = "r1_hf"
         ELSE /\ pc' = "r1_clone"
              /\ UNCHANGED <<repo_dir, pages_url, commit_sha, failed>>
  /\ UNCHANGED <<reqVars, stateVars, repo_name, existing_repo_name, wsVars,
                 payload, caller, retryVars>>
  /\ UNCHANGED extractVars
  /\ UNCHANGED hfVars

\* Step 2: the TemporaryDirectory is entered and the remote cloned into it.
\* Leaving the with block on the failure return deletes the directory.
R1Clone ==
  /\ pc = "r1_clone"
  /\ calls' = Inc("clone")
  /\ \/ /\ ws' = "exists"
        /\ pc' = "r1_write"
        /\ UNCHANGED <<wsDeletes, repo_dir, pages_url, commit_sha, failed>>
     \/ /\ ws' = "deleted"
        /\ wsDeletes' = wsDeletes + 1
        /\ repo_dir' = "None"
        /\ pages_url' = NoName
        /\ commit_sha' = "None"
        /\ failed' = failed \cup {"clone"}
        /\ pc' = "r1_hf"
  /\ UNCHANGED <<reqVars, stateVars, repo_name, existing_repo_name, payload,
                 caller, retryVars>>
  /\ UNCHANGED extractVars
  /\ UNCHANGED hfVars

\* Steps 3-5: index.html, LICENSE and README.md are written; an I/O error
\* leaves the with block (deleting the directory) and the caller's try.
R1Write ==
  /\ pc = "r1_write"
  /\ \/ /\ pc' = "r1_cmds"
        /\ UNCHANGED <<exc, wsVars>>
     \/ /\ exc' = "OSError"
        /\ ws' = "deleted"
        /\ wsDeletes' = wsDeletes + 1
        /\ pc' = "r1_finally"
  /\ UNCHANGED <<req, response, responseRepo, stateVars, localVars, failed,
                 calls, payload, caller, retryVars>>
  /\ UNCHANGED extractVars
  /\ UNCHANGED hfVars

\* Step 6: the commands run in order and the first failure returns the
\* failure triple (k is the index of the first failing command, 0 if none).
R1Cmds ==
  /\ pc = "r1_cmds"
  /\ \E k \in 0..Len(CmdList) :
       LET n == IF k = 0 THEN Len(CmdList) ELSE k IN
       /\ calls' = [calls EXCEPT !.commit = @ + Ran("commit", n),
                                 !.push = @ + Ran("push", n)]
       /\ IF k = 0
            THEN /\ pc' = "r1_pages"
                 /\ UNCHANGED <<wsVars, repo_dir, pages_url, commit_sha, failed>>
            ELSE /\ ws' = "deleted"
                 /\ wsDeletes' = wsDeletes + 1
                 /\ repo_dir' = "None"
                 /\ pages_url' = NoName
                 /\ commit_sha' = "None"
                 /\ failed' = failed \cup {Stage(CmdList[k])}
                 /\ pc' = "r1_hf"
  /\ UNCHANGED <<reqVars, stateVars, repo_name, existing_repo_name, payload,
                 caller, retryVars>>
  /\ UNCHANGED extractVars
  /\ UNCHANGED hfVars

\* Step 7: enabling GitHub Pages. Its failure returns a pair, which the
\* caller's three-way unpacking turns into a ValueError.
R1Pages ==
  /\ pc = "r1_pages"
  /\ calls' = Inc("pages")
  /\ \/ /\ pc' = "r1_revparse"
        /\ UNCHANGED <<exc, wsVars, failed>>
     \/ /\ ws' = "deleted"
        /\ wsDeletes' = wsDeletes + 1
        /\ failed' = failed \cup {"pages"}
        /\ exc' = "ValueError"
        /\ pc' = "r1_finally"
  /\ UNCHANGED <<req, response, responseRepo, stateVars, localVars, payload,
                 caller, retryVars>>
  /\ UNCHANGED extractVars
  /\ UNCHANGED hfVars

\* git rev-parse HEAD, the success return, and the end of the with block,
\* which deletes the directory the returned repo_dir names.
R1RevParse ==
  /\ pc = "r1_revparse"
  /\ \E out \in {"None", "sha"} :
       commit_sha' = IF out = "None" THEN UnknownCommit ELSE out
  /\ repo_dir' = "dir"
  /\ pages_url' = PagesUrl(repo_name)
  /\ lastProvisioned' = repo_name
  /\ ws' = "deleted"
  /\ wsDeletes' = wsDeletes + 1
  /\ pc' = "r1_hf"
  /\ UNCHANGED <<reqVars, slot, slotWriters, prevR1, repo_name, existing_repo_name, failed,
                 calls, payload, caller, retryVars>>
  /\ UNCHANGED extractVars
  /\ UNCHANGED hfVars

\* deploy_to_huggingface: best effort, it returns a URL or None and never
\* raises; its result is not used.
R1HuggingFace ==
  /\ pc = "r1_hf"
  /\ calls' = Inc("hf")
  /\ pc' = "r1_persist"
  /\ UNCHANGED <<reqVars, stateVars, localVars, wsVars, failed, payload, caller,
                 retryVars>>
  /\ UNCHANGED extractVars
  /\ UNCHANGED hfVars

\* open("/tmp/last_round1_repo.txt", "w").write(repo_name)
R1Persist ==
  /\ pc = "r1_persist"
  /\ slot' = repo_name
  /\ slotWriters' = slotWriters \cup {req.task}
  /\ calls' = Inc("slotWrite")
  /\ pc' = "r1_notify"
  /\ UNCHANGED <<reqVars, lastProvisioned, prevR1, localVars, wsVars, failed,
                 payload, caller, retryVars>>
  /\ UNCHANGED extractVars
  /\ UNCHANGED hfVars

\* The payload is built and post_with_retry(evaluation_url, payload) called.
R1Notify ==
  /\ pc = "r1_notify"
  /\ payload' = [round |-> 1, repo_url |-> RepoUrl(repo_name),
                 commit_sha |-> commit_sha, pages_url |-> pages_url]
  /\ caller' = "r1"
  /\ max_wait' = DefaultMaxWait
  /\ pc' = "post_enter"
  /\ UNCHANGED <<reqVars, stateVars, localVars, wsVars, failed, calls, delay,
                 total_wait, sleeps, nAttempts, lastStatus, postResult>>
  /\ UNCHANGED extractVars
  /\ UNCHANGED hfVars

\* if repo_dir and os.path.exists(repo_dir)
R1NeedsCleanup_NoExistsTest(dir, w) == dir # "None"
R1NeedsCleanup(dir, w) == dir # "None" /\ w = "exists"

\* R1Finally, had the caller turned a False from post_with_retry into a failure.
R1Finally_PropagatesNotifyFailure ==
  /\ pc = "r1_finally"
  /\ IF R1NeedsCleanup(repo_dir, ws)
       THEN ws' = "deleted" /\ wsDeletes' = wsDeletes + 1
       ELSE UNCHANGED wsVars
  /\ IF exc = "none" /\ postResult # "False"
       THEN Return(HttpOk, repo_name) /\ UNCHANGED exc
       ELSE Raise(IF exc = "none" THEN "NotificationError" ELSE exc)
  /\ UNCHANGED <<req, slot, slotWriters, lastProvisioned, localVars, failed, calls, payload,
                 caller, retryVars>>
  /\ UNCHANGED extractVars
  /\ UNCHANGED hfVars

\* The finally block, then the success return or the pending exception.
R1Finally ==
  /\ pc = "r1_finally"
  /\ IF R1NeedsCleanup(repo_dir, ws)
       THEN ws' = "deleted" /\ wsDeletes' = wsDeletes + 1
       ELSE UNCHANGED wsVars
  /\ IF exc = "none"
       THEN Return(HttpOk, repo_name) /\ UNCHANGED exc
       ELSE Raise(exc)
  /\ UNCHANGED <<req, slot, slotWriters, lastProvisioned, localVars, failed, calls, payload,
                 caller, retryVars>>
  /\ UNCHANGED extractVars
  /\ UNCHANGED hfVars

\* ------------------------------------------------------------------ Round 2
\* os.path.exists("/tmp/last_round1_repo.txt")
SlotExists_Always(s) == TRUE
SlotExists(s) == s # NoFile

\* The target: the explicit existing_repo_name if truthy, else the stripped
\* content of the slot file, else the 400 response.
R2Resolve ==
  /\ pc = "r2_resolve"
  /\ IF ~Falsy(req.existing_repo_name)
       THEN /\ existing_repo_name' = Get(req.existing_repo_name, NoName)
            /\ pc' = "r2_clone"
            /\ UNCHANGED <<reqVars, prevR1>>
       ELSE IF SlotExists(slot)
         THEN /\ existing_repo_name' = Strip(slot)
              /\ pc' = "r2_clone"
              /\ UNCHANGED <<reqVars, prevR1>>
         ELSE /\ Return(400, NoName)
              /\ UNCHANGED <<exc, existing_repo_name>>
  /\ UNCHANGED <<req, slot, slotWriters, lastProvisioned, repo_name, repo_dir, pages_url,
                 commit_sha, wsVars, failed, calls, payload, caller, retryVars>>
  /\ UNCHANGED extractVars
  /\ UNCHANGED hfVars

\* repo_dir = tempfile.mkdtemp(...), then git clone into it; the result of
\* the clone is discarded.
R2Clone ==
  /\ pc = "r2_clone"
  /\ repo_dir' = "dir"
  /\ ws' = "exists"
  /\ calls' = [calls EXCEPT !.mkdtemp = @ + 1, !.clone = @ + 1]
  /\ \/ UNCHANGED failed
     \/ failed' = failed \cup {"clone"}
  /\ pc' = "r2_generate"
  /\ UNCHANGED <<reqVars, stateVars, repo_name, pages_url, commit_sha,
                 existing_repo_name, wsDeletes, payload, caller, retryVars>>
  /\ UNCHANGED extractVars
  /\ UNCHANGED hfVars

\* html_output = generate_html_from_brief(...), inside the try block.
R2Generate ==
  /\ pc = "r2_generate"
  /\ calls' = Inc("gen")
  /\ \/ pc' = "r2_write" /\ UNCHANGED exc
     \/ pc' = "r2_finally" /\ exc' = "GenerationError"
  /\ UNCHANGED <<req, response, responseRepo, stateVars, localVars, wsVars,
                 failed, payload, caller, retryVars>>
  /\ UNCHANGED extractVars
  /\ UNCHANGED hfVars

\* index.html is overwritten and the note appended to README.md.
R2Write ==
  /\ pc = "r2_write"
  /\ \/ pc' = "r2_cmds" /\ UNCHANGED exc
     \/ pc' = "r2_finally" /\ exc' = "OSError"
  /\ UNCHANGED <<req, response, responseRepo, stateVars, localVars, wsVars,
                 failed, calls, payload, caller, retryVars>>
  /\ UNCHANGED extractVars
  /\ UNCHANGED hfVars

\* for cmd in cmds: subprocess_run_safe(cmd, cwd=repo_dir). Every command
\* runs whatever the earlier ones returned (F: the commands that fail).
R2Cmds ==
  /\ pc = "r2_cmds"
  /\ \E F \in SUBSET (1..Len(CmdList)) :
       failed' = failed \cup {Stage(CmdList[i]) : i \in F}
  /\ calls' = [calls EXCEPT !.commit = @ + Ran("commit", Len(CmdList)),
                            !.push = @ + Ran("push", Len(CmdList))]
  /\ pc' = "r2_revparse"
  /\ UNCHANGED <<reqVars, stateVars, localVars, wsVars, payload, caller,
                 retryVars>>
  /\ UNCHANGED extractVars
  /\ UNCHANGED hfVars

\* commit_sha = git rev-parse HEAD (None on failure), pages_url, and the
\* fixed 120 s sleep.
R2RevParse ==
  /\ pc = "r2_revparse"
  /\ \E out \in {"None", "sha"} : commit_sha' = out
  /\ pages_url' = PagesUrl(existing_repo_name)
  /\ pc' = "r2_notify"
  /\ UNCHANGED <<reqVars, stateVars, repo_name, repo_dir, existing_repo_name,
                 wsVars, failed, calls, payload, caller, retryVars>>
  /\ UNCHANGED extractVars
  /\ UNCHANGED hfVars

\* The payload (commit_sha or "unknown_commit") and the post_with_retry call.
R2Notify ==
  /\ pc = "r2_notify"
  /\ payload' = [round |-> 2, repo_url |-> RepoUrl(existing_repo_name),
                 commit_sha |-> IF commit_sha \in {"None", ""}
                                  THEN UnknownCommit ELSE commit_sha,
                 pages_url |-> pages_url]
  /\ caller' = "r2"
  /\ max_wait' = DefaultMaxWait
  /\ pc' = "post_enter"
  /\ UNCHANGED <<reqVars, stateVars, localVars, wsVars, failed, calls, delay,
                 total_wait, sleeps, nAttempts, lastStatus, postResult>>
  /\ UNCHANGED extractVars
  /\ UNCHANGED hfVars

\* finally: if os.path.exists(repo_dir): shutil.rmtree(repo_dir); then the
\* success return or the pending exception.
R2Finally ==
  /\ pc = "r2_finally"
  /\ IF ws = "exists"
       THEN ws' = "deleted" /\ wsDeletes' = wsDeletes + 1
       ELSE UNCHANGED wsVars
  /\ IF exc = "none"
       THEN Return(HttpOk, existing_repo_name) /\ UNCHANGED exc
       ELSE Raise(exc)
  /\ UNCHANGED <<req, slot, slotWriters, lastProvisioned, localVars, failed, calls, payload,
                 caller, retryVars>>
  /\ UNCHANGED extractVars
  /\ UNCHANGED hfVars

Next ==
  \/ Receive
  \/ SecretGate
  \/ R1Generate
  \/ R1Create
  \/ R1Clone
  \/ R1Write
  \/ R1Cmds
  \/ R1Pages
  \/ R1RevParse
  \/ R1HuggingFace
  \/ R1Persist
  \/ R1Notify
  \/ R1Finally
  \/ R2Resolve
  \/ R2Clone
  \/ R2Generate
  \/ R2Write
  \/ R2Cmds
  \/ R2RevParse
  \/ R2Notify
  \/ R2Finally
  \/ PostEnter
  \/ PostLoop
  \/ PostTry
  \/ PostSleep

Spec == Init /\ [][Next]_vars

\* The steps of the handler once a request has been read. The handler is
\* straight-line blocking code: when every external call returns, its next
\* step is taken.
Handle ==
  \/ SecretGate
  \/ R1Generate \/ R1Create \/ R1Clone \/ R1Write \/ R1Cmds \/ R1Pages
  \/ R1RevParse \/ R1HuggingFace \/ R1Persist \/ R1Notify \/ R1Finally
  \/ R2Resolve \/ R2Clone \/ R2Generate \/ R2Write \/ R2Cmds \/ R2RevParse
  \/ R2Notify \/ R2Finally
  \/ PostEnter \/ PostLoop \/ PostTry \/ PostSleep

SpecLive == Init /\ [][Next]_vars /\ WF_vars(Handle)

\* --------------------------- generate_html_from_brief: extraction on its own
\* The raw response text is a sequence of tokens: the html-tagged fence, the
\* generic fence, two texts and a whitespace character.
\* the three-backquote fence, and the same followed by "html"
HtmlFence == "<fence>html"
Fence == "<fence>"
Tokens == {HtmlFence, Fence, "x", "y", " "}
RawTexts == UNION {[1..k -> Tokens] : k \in 0..MaxRawLen}

\* Does the token contain the separator as a substring: the generic fence
\* occurs in the html-tagged fence as well as in itself.
Matches(tok, sep) == tok = sep \/ (sep = Fence /\ tok = HtmlFence)

\* What splitting at the separator leaves of the token: the html-tagged
\* fence split at the generic fence leaves the text "html".
Residue(tok, sep) == IF tok = HtmlFence /\ sep = Fence THEN <<"html">> ELSE <<>>

\* sep in s
Contains(s, sep) == \E i \in 1..Len(s) : Matches(s[i], sep)

\* s.split(sep)
RECURSIVE Split(_, _)
Split(s, sep) ==
  IF ~Contains(s, sep) THEN <<s>>
  ELSE LET i == CHOOSE k \in 1..Len(s) :
                  Matches(s[k], sep) /\ \A j \in 1..(k - 1) : ~Matches(s[j], sep)
       IN  <<SubSeq(s, 1, i - 1)>>
             \o Split(Residue(s[i], sep) \o SubSeq(s, i + 1, Len(s)), sep)

\* The generic branch alone: the html-tagged fence is given no priority.
ExtractHtml_NoTagPriority(text) ==
  LET html == Strip(text)
  IN  IF Contains(html, Fence)
        THEN Strip(Split(Split(html, Fence)[2], Fence)[1])
        ELSE html

\* main.py:96-105
ExtractHtml(text) ==
  LET html == Strip(text)
  IN  IF Contains(html, HtmlFence)
        THEN Strip(Split(Split(html, HtmlFence)[2], Fence)[1])
        ELSE IF Contains(html, Fence)
          THEN Strip(Split(Split(html, Fence)[2], Fence)[1])
          ELSE html

InitExtract ==
  /\ req = NoReq
  /\ pc = "extract"
  /\ exc = "none"
  /\ response = 0
  /\ responseRepo = NoName
  /\ slot = NoFile
  /\ slotWriters = {}
  /\ lastProvisioned = NoName
  /\ prevR1 = NoName
  /\ repo_name = NoName
  /\ repo_dir = "None"
  /\ pages_url = NoName
  /\ commit_sha = "None"
  /\ existing_repo_name = NoName
  /\ ws = "none"
  /\ wsDeletes = 0
  /\ failed = {}
  /\ calls = NoCalls
  /\ payload = NoPayload
  /\ caller = "none"
  /\ max_wait = 0
  /\ delay = 0
  /\ total_wait = 0
  /\ sleeps = <<>>
  /\ nAttempts = 0
  /\ lastStatus = NoOutcome
  /\ postResult = "none"
  /\ raw \in RawTexts
  /\ html_content = NoName
  /\ hf_token = TRUE
  /\ hf_pc = [w \in Pipelines |-> "idle"]
  /\ hf_html = [w \in Pipelines |-> <<>>]
  /\ hf_file = NoFile
  /\ hf_uploaded = [w \in Pipelines |-> NotUploaded]
  /\ hf_result = [w \in Pipelines |-> "none"]

\* html_content = response.text.strip() and the two fence branches
Extract ==
  /\ pc = "extract"
  /\ html_content' = ExtractHtml(raw)
  /\ pc' = "extracted"
  /\ UNCHANGED <<reqVars, stateVars, localVars, wsVars, failed, calls, payload,
                 caller, retryVars, raw>>
  /\ UNCHANGED hfVars

NextExtract == Extract

SpecExtract == InitExtract /\ [][NextExtract]_vars

\* ------------------------------ deploy_to_huggingface in concurrent pipelines
\* One server process handles its requests one at a time, but /tmp is shared
\* by every process of the machine: a second server process, or main.py run
\* as a script (main.py:276-281), runs a Round-1 pipeline of its own beside
\* it. Each pipeline w calls deploy_to_huggingface with its own document.
InitHF ==
  /\ req = NoReq
  /\ pc = "hf"
  /\ exc = "none"
  /\ response = 0
  /\ responseRepo = NoName
  /\ slot = NoFile
  /\ slotWriters = {}
  /\ lastProvisioned = NoName
  /\ prevR1 = NoName
  /\ repo_name = NoName
  /\ repo_dir = "None"
  /\ pages_url = NoName
  /\ commit_sha = "None"
  /\ existing_repo_name = NoName
  /\ ws = "none"
  /\ wsDeletes = 0
  /\ failed = {}
  /\ calls = NoCalls
  /\ payload = NoPayload
  /\ caller = "none"
  /\ max_wait = 0
  /\ delay = 0
  /\ total_wait = 0
  /\ sleeps = <<>>
  /\ nAttempts = 0
  /\ lastStatus = NoOutcome
  /\ postResult = "none"
  /\ raw = <<>>
  /\ html_content = NoName
  /\ hf_token \in BOOLEAN
  /\ hf_pc = [w \in Pipelines |-> "call"]
  /\ hf_html \in [Pipelines -> Documents]
  /\ hf_file = NoFile
  /\ hf_uploaded = [w \in Pipelines |-> NotUploaded]
  /\ hf_result = [w \in Pipelines |-> "none"]

notHfVars == <<reqVars, pc, stateVars, localVars, wsVars, failed, calls,
               payload, caller, retryVars, extractVars>>

\* if not hf_token: return None
HfEnter(w) ==
  /\ hf_pc[w] = "call"
  /\ IF hf_token
       THEN /\ hf_pc' = [hf_pc EXCEPT ![w] = "create"]
            /\ UNCHANGED hf_result
       ELSE /\ hf_pc' = [hf_pc EXCEPT ![w] = "done"]
            /\ hf_result' = [hf_result EXCEPT ![w] = "None"]
  /\ UNCHANGED <<hf_token, hf_html, hf_file, hf_uploaded, notHfVars>>

\* create_repo(..., exist_ok=True); an exception makes the call return None
HfCreateRepo(w) ==
  /\ hf_pc[w] = "create"
  /\ \E ok \in BOOLEAN :
       IF ok
         THEN /\ hf_pc' = [hf_pc EXCEPT ![w] = "open"]
              /\ UNCHANGED hf_result
         ELSE /\ hf_pc' = [hf_pc EXCEPT ![w] = "done"]
              /\ hf_result' = [hf_result EXCEPT ![w] = "None"]
  /\ UNCHANGED <<hf_token, hf_html, hf_file, hf_uploaded, notHfVars>>

\* open("/tmp/index.html", "w") truncates the file
HfOpen(w) ==
  /\ hf_pc[w] = "open"
  /\ hf_file' = <<>>
  /\ hf_pc' = [hf_pc EXCEPT ![w] = "write"]
  /\ UNCHANGED <<hf_token, hf_html, hf_uploaded, hf_result, notHfVars>>

\* f.write(html_content), flushed when the with block closes the file
HfWrite(w) ==
  /\ hf_pc[w] = "write"
  /\ hf_file' = hf_html[w]
  /\ hf_pc' = [hf_pc EXCEPT ![w] = "upload"]
  /\ UNCHANGED <<hf_token, hf_html, hf_uploaded, hf_result, notHfVars>>

\* api.upload_file(path_or_fileobj="/tmp/index.html", ...) sends what the
\* file holds now; an exception makes the call return None
HfUpload(w) ==
  /\ hf_pc[w] = "upload"
  /\ hf_pc' = [hf_pc EXCEPT ![w] = "done"]
  /\ \E ok \in BOOLEAN :
       IF ok
         THEN /\ hf_uploaded' = [hf_uploaded EXCEPT ![w] = hf_file]
              /\ hf_result' = [hf_result EXCEPT ![w] = "url"]
         ELSE /\ hf_result' = [hf_result EXCEPT ![w] = "None"]
              /\ UNCHANGED hf_uploaded
  /\ UNCHANGED <<hf_token, hf_html, hf_file, notHfVars>>

NextHF ==
  \E w \in Pipelines :
    \/ HfEnter(w)
    \/ HfCreateRepo(w)
    \/ HfOpen(w)
    \/ HfWrite(w)
    \/ HfUpload(w)

SpecHF == InitHF /\ [][NextHF]_vars

\* ==================================================================== claims
ValidSecret == req.secret = {ExpectedSecret}
InFlight == pc # "idle"
NoSideEffect == calls = NoCalls /\ ws = "none" /\ nAttempts = 0 /\ payload = NoPayload

\* C1: a request whose secret is absent or differs from the configured one
\* causes no external call, no workspace, no slot write and no notification
\* attempt, and its response is 401.
C1_BadSecretNoSideEffect ==
  (InFlight /\ ~ValidSecret) =>
     /\ NoSideEffect
     /\ pc \in {"gate", "done"}
     /\ (pc = "done" => response = 401)

C1_Witness == pc = "done" /\ req.secret = {} /\ response = 401

\* C2: in Round 1 a provisioning failure (create, clone, a git command,
\* enabling publication) is followed by no notification attempt and the
\* response is not the success response.
C2_Round1FailureShortCircuits ==
  (InFlight /\ ValidSecret /\ RoundNum = 1 /\ failed # {}) =>
     /\ nAttempts = 0
     /\ response # HttpOk

\* C3: between requests the slot is empty or holds the name of the latest
\* successfully provisioned Round-1 artifact, and a Round 1 whose
\* provisioning failed has not written the slot.
C3_SlotOnlyAfterProvisioning ==
  /\ (pc \in {"idle", "done"} => slot \in {NoFile, lastProvisioned})
  /\ (InFlight /\ ValidSecret /\ RoundNum = 1 /\ failed # {} => calls.slotWrite = 0)

\* C4: in Round 2 a failed clone, commit or push ends the pipeline: after a
\* failed clone no generation call, commit or push is issued, and after any
\* of the three failures no notification attempt is made and the response is
\* not the success response.
C4_Round2FailureShortCircuits ==
  (InFlight /\ ValidSecret /\ RoundNum = 2
     /\ failed \cap {"clone", "commit", "push"} # {}) =>
     /\ ("clone" \in failed => calls.gen = 0 /\ calls.commit = 0 /\ calls.push = 0)
     /\ nAttempts = 0
     /\ response # HttpOk

\* C5: a Round-2 request with a valid secret, no existing_repo_name and no
\* slot file ends with 400 and has acquired no workspace and issued no
\* clone, generation call or notification.
C5_Round2UnresolvedIs400 ==
  (InFlight /\ ValidSecret /\ RoundNum = 2
     /\ req.existing_repo_name \in {{}, {<<>>}} /\ slot = NoFile) =>
     /\ NoSideEffect
     /\ pc \in {"gate", "r2_resolve", "done"}
     /\ (pc = "done" => response = 400)

C5_Witness ==
  /\ pc = "done" /\ ValidSecret /\ RoundNum = 2
  /\ req.existing_repo_name = {} /\ slot = NoFile /\ response = 400

\* C6: a workspace is never deleted twice, and when the invocation has
\* returned or raised, the workspace it acquired, if any, has been deleted
\* exactly once.
C6_WorkspaceDeletedOnce ==
  /\ wsDeletes <= 1
  /\ (ws = "deleted" <=> wsDeletes = 1)
  /\ (pc = "done" => ws # "exists")
  /\ (calls.mkdtemp > 0 /\ pc = "done" => ws = "deleted")

\* Round 1 succeeded: the finally block saw a repo_dir that is not None.
C6_Witness ==
  /\ pc = "done" /\ RoundNum = 1 /\ response = HttpOk
  /\ repo_dir = "dir" /\ ws = "deleted" /\ wsDeletes = 1

\* C7: when the preceding request was a Round 1 for task T that provisioned
\* its artifact and returned success, a Round 2 for T without
\* existing_repo_name resolves to the artifact name of that Round 1
\* (repo_name is the task identifier itself).
C7_Round2ResolvesRound1Name ==
  (InFlight /\ ValidSecret /\ RoundNum = 2 /\ req.existing_repo_name = {}
     /\ prevR1 # NoName /\ lastProvisioned = prevR1 /\ req.task = prevR1
     /\ existing_repo_name # NoName) =>
     existing_repo_name = prevR1

\* C8 as claimed: the backoff sleeps of a call never add up to more than
\* max_wait, and a call without a 200 returns False without raising.
C8_SleepsWithinBudget ==
  /\ Sum(sleeps) <= max_wait
  /\ exc = "none"
  /\ (pc = "post_done" /\ lastStatus # Responded(HttpOk) => postResult = "False")

\* C8 as amended: the budget is tested before each attempt, so every sleep
\* starts with total_wait below max_wait and the sum of the sleeps stays
\* below max_wait + 60; a call without a 200 returns False, without raising,
\* once total_wait has reached max_wait.
C8_BudgetTestedBeforeAttempt ==
  /\ total_wait = Sum(sleeps)
  /\ (sleeps # <<>> => Sum(sleeps) - sleeps[Len(sleeps)] < max_wait)
  /\ Sum(sleeps) < max_wait + DelayCap
  /\ (pc \in {"post_try", "post_sleep"} => total_wait < max_wait)
  /\ exc = "none"
  /\ (pc = "post_done" /\ lastStatus # Responded(HttpOk) =>
        postResult = "False" /\ total_wait >= max_wait)

\* The default budget is overshot: 602 seconds of sleep for max_wait 600.
C8_Witness ==
  /\ pc = "post_done" /\ postResult = "False"
  /\ max_wait = DefaultMaxWait /\ Sum(sleeps) > max_wait

\* C9: the delays slept start at 2, each later one is min(2 * previous, 60),
\* so they never decrease and none exceeds 60.
C9_DelaysDoubleToCap ==
  /\ \A i \in 1..Len(sleeps) :
       /\ (i = 1 => sleeps[i] = DelayInit)
       /\ (i > 1 => /\ sleeps[i] = Min(2 * sleeps[i - 1], DelayCap)
                    /\ sleeps[i] >= sleeps[i - 1])
       /\ sleeps[i] <= DelayCap
  /\ (pc \in {"post_loop", "post_try", "post_sleep"} => delay <= DelayCap)

\* The cap has been reached and kept.
C9_Witness == Len(sleeps) >= 7 /\ sleeps[6] = DelayCap /\ sleeps[7] = DelayCap

\* C10: the call returns True exactly when an attempt got status 200, and
\* then at once, with no further attempt or sleep; every other outcome
\* (another status, 201 included, or a transport error) is followed by a
\* sleep, so a call that returns False has slept after every attempt.
C10_TrueIffStatus200 ==
  /\ (postResult = "True" <=> lastStatus = Responded(HttpOk))
  /\ (lastStatus = Responded(HttpOk) =>
        pc = "post_done" /\ nAttempts = Len(sleeps) + 1)
  /\ (lastStatus \notin {NoOutcome, Responded(HttpOk)} =>
        pc = "post_sleep" /\ postResult = "none" /\ nAttempts = Len(sleeps) + 1)
  /\ (pc \in {"post_loop", "post_try"} \/ postResult = "False" =>
        nAttempts = Len(sleeps))

\* A 200 after an attempt that failed.
C10_Witness == pc = "post_done" /\ postResult = "True" /\ nAttempts >= 2

\* C11: when post_with_retry returned False after a provisioning or update
\* in which no stage failed, the request still ends with 200 and the
\* artifact name, the slot (Round 1) holds the name, and the workspace has
\* been deleted.
C11_NotifyFailureNotPropagated ==
  (pc = "done" /\ ValidSecret /\ postResult = "False" /\ failed = {}) =>
     /\ response = HttpOk
     /\ exc = "none"
     /\ responseRepo = (IF RoundNum = 1 THEN repo_name ELSE existing_repo_name)
     /\ (RoundNum = 1 => slot = repo_name /\ calls.slotWrite = 1)
     /\ ws = "deleted" /\ wsDeletes = 1

C11_Witness ==
  /\ pc = "done" /\ ValidSecret /\ postResult = "False" /\ failed = {}
  /\ RoundNum = 1 /\ response = HttpOk /\ slot = repo_name
  /\ Sum(sleeps) >= DefaultMaxWait

\* C12: when the primary generation call fails the fallback provider is
\* called exactly once, and a request makes at most two generation calls.
C12_FallbackOnceOnPrimaryFailure ==
  /\ (exc = "GenerationError" => calls.fallback = 1)
  /\ calls.gen + calls.fallback <= 2

\* C14: a Round-2 request never calls create-remote and never clones,
\* commits or pushes twice; when it completes with every git command
\* successful it has issued exactly one clone, one commit and one push.
C14_Round2NeverCreates ==
  (InFlight /\ ValidSecret /\ RoundNum = 2) =>
     /\ calls.create = 0
     /\ calls.clone <= 1 /\ calls.commit <= 1 /\ calls.push <= 1
     /\ (pc = "done" /\ response = HttpOk /\ failed = {} =>
           calls.clone = 1 /\ calls.commit = 1 /\ calls.push = 1)

C14_Witness ==
  /\ pc = "done" /\ ValidSecret /\ RoundNum = 2 /\ response = HttpOk
  /\ req.existing_repo_name = {<<"c">>} /\ failed = {}
  /\ calls.clone = 1 /\ calls.commit = 1 /\ calls.push = 1 /\ calls.create = 0

\* C15: the name a Round 1 has just passed to create-remote differs from the
\* name of the artifact the latest earlier Round 1 created.
C15_NamesNeverReused ==
  (ValidSecret /\ RoundNum = 1 /\ calls.create = 1
     /\ pc \in {"r1_clone", "r1_write", "r1_cmds", "r1_pages", "r1_revparse"}) =>
     repo_name # lastProvisioned

\* C16: once a notification has been attempted, its payload carries the
\* public URL of the request's artifact and a commit identifier that is the
\* one read back or the sentinel, never None; a commit id that was read back
\* is the one sent.
C16_PayloadCarriesUrlAndCommit ==
  (caller \in {"r1", "r2"} /\ nAttempts >= 1) =>
     LET name == IF caller = "r1" THEN repo_name ELSE existing_repo_name IN
     /\ payload.pages_url = PagesUrl(name)
     /\ payload.commit_sha \in {"sha", UnknownCommit}
     /\ (commit_sha = "sha" => payload.commit_sha = "sha")

\* C19: on the Round-1 path with no failure the publisher runs after
\* provisioning, the slot is written after the publisher and before the
\* first notification attempt, the workspace exists until post_with_retry
\* has returned, and it is deleted before the success response.
C19_Round1Order ==
  (InFlight /\ ValidSecret /\ RoundNum = 1 /\ failed = {} /\ exc = "none") =>
     /\ (calls.hf > 0 => repo_dir = "dir")
     /\ (calls.slotWrite > 0 => calls.hf > 0)
     /\ (nAttempts > 0 => slot = repo_name /\ calls.slotWrite = 1)
     /\ (repo_dir = "dir" /\ postResult = "none" => ws = "exists")
     /\ (response = HttpOk => ws = "deleted" /\ postResult # "none")

\* C20: a provisioning failure at any step reaches the orchestrator as a
\* failure triple, so no exception arises from it.
C20_FailureIsATriple ==
  (InFlight /\ ValidSecret /\ RoundNum = 1 /\ failed # {}) => exc = "none"

\* C17: a Round 2 without existing_repo_name takes its target from the one
\* slot, whatever its own task: the slot file exists, was written by some
\* Round 1, and the target is its stripped content. (That the target can be
\* another task's artifact is the state C17_Witness describes.)
C17_Round2FollowsSlot ==
  (InFlight /\ ValidSecret /\ RoundNum = 2
     /\ req.existing_repo_name \in {{}, {<<>>}} /\ pc # "gate" /\ pc # "r2_resolve"
     /\ response # 400) =>
     /\ slot \in slotWriters
     /\ existing_repo_name = Strip(slot)

\* Round 1 requests for "b " and for "a" have both written the slot, and a
\* Round 2 for task "b " without existing_repo_name has cloned and pushed to
\* the artifact "a".
C17_Witness ==
  /\ ValidSecret /\ RoundNum = 2 /\ req.existing_repo_name = {}
  /\ req.task = <<"b", " ">>
  /\ slotWriters = {<<"a">>, <<"b", " ">>}
  /\ slot = <<"a">> /\ lastProvisioned = <<"a">>
  /\ existing_repo_name = <<"a">>
  /\ payload.repo_url = RepoUrl(<<"a">>)
  /\ calls.clone = 1 /\ calls.push = 1 /\ failed = {}
  /\ pc = "done" /\ response = HttpOk

\* C18: every request that has been read reaches its response (so the
\* retry loop ends), a response exists only once the handler is done, and it
\* is 401 for a bad secret, 400 for a Round 2 with no target, 500 exactly
\* when an exception left the pipeline (a round that is neither 1 nor 2
\* included), and 200 for a round that ran through its notification.
C18_EveryRequestAnswered ==
  /\ [](InFlight => (response # 0 <=> pc = "done"))
  /\ [](pc = "done" =>
          /\ response \in {HttpOk, 400, 401, 500}
          /\ (response = 401 <=> ~ValidSecret)
          /\ (response = 400 <=>
                /\ ValidSecret /\ RoundNum = 2
                /\ req.existing_repo_name \in {{}, {<<>>}} /\ slot = NoFile)
          /\ (response = 500 <=> exc # "none")
          /\ (ValidSecret /\ RoundNum \notin {1, 2} => response = 500)
          /\ (response = HttpOk <=>
                ValidSecret /\ RoundNum \in {1, 2} /\ postResult # "none"))
  /\ ((pc = "gate") ~> (pc = "done"))

\* A request with round 3 answered 500.
C18_Witness ==
  pc = "done" /\ ValidSecret /\ RoundNum = 3 /\ response = 500 /\ exc = "TypeError"

\* Positions of the fence markers of the raw text, in order.
FencePositions == {i \in 1..Len(raw) : raw[i] \in {HtmlFence, Fence}}
NthFence(n) ==
  CHOOSE i \in FencePositions : Cardinality({j \in FencePositions : j <= i}) = n
Between(i, j) == Strip(SubSeq(raw, i + 1, j - 1))
FirstAfter(i, S) ==
  IF \E j \in (i + 1)..Len(raw) : raw[j] \in S
    THEN CHOOSE j \in (i + 1)..Len(raw) :
           raw[j] \in S /\ \A k \in (i + 1)..(j - 1) : raw[k] \notin S
    ELSE Len(raw) + 1

\* The reference: the content after the first html-tagged fence up to the
\* next fence marker; else the content between the first pair of fence
\* markers; else the whole text; trimmed.
RefExtract ==
  IF \E i \in 1..Len(raw) : raw[i] = HtmlFence
    THEN LET i == FirstAfter(0, {HtmlFence})
         IN  Between(i, FirstAfter(i, {HtmlFence, Fence}))
    ELSE IF FencePositions # {}
      THEN LET i == FirstAfter(0, {Fence})
           IN  Between(i, FirstAfter(i, {Fence}))
      ELSE Strip(raw)

\* Two independent fenced blocks: four fence markers, the second and fourth
\* being generic closing fences.
TwoBlocks ==
  /\ Cardinality(FencePositions) = 4
  /\ raw[NthFence(2)] = Fence
  /\ raw[NthFence(4)] = Fence
FirstBlock == Between(NthFence(1), NthFence(2))
SecondBlock == Between(NthFence(3), NthFence(4))
OnlySecondTagged == raw[NthFence(1)] = Fence /\ raw[NthFence(3)] = HtmlFence

\* C13 as stated: the extraction equals the reference and, with two
\* independent fenced blocks, returns the first block's content.
C13_FirstBlockOnly ==
  pc = "extracted" =>
    /\ html_content = RefExtract
    /\ (TwoBlocks => html_content = FirstBlock)

\* C13: the extraction equals the reference for every raw text: the trimmed
\* content between the first html-tagged fence and the next fence marker,
\* else between the first pair of fence markers, else the trimmed full text.
\* With two independent fenced blocks it returns the first block's content,
\* except that it returns the second block's content when only the second
\* block is html-tagged.
C13_ExtractMatchesReference ==
  pc = "extracted" =>
    /\ html_content = RefExtract
    /\ (TwoBlocks =>
          html_content = IF OnlySecondTagged THEN SecondBlock ELSE FirstBlock)

\* A generic block followed by an html-tagged block: the second is returned.
C13_Witness ==
  /\ pc = "extracted"
  /\ raw = <<Fence, "x", Fence, HtmlFence, "y", Fence>>
  /\ html_content = <<"y">>

\* C21: when two Round-1 pipelines run concurrently, no interleaving of their
\* deploy_to_huggingface calls makes one pipeline upload the document of the
\* other: what a pipeline uploads is never the differing document of another.
C21_UploadsOwnDocument ==
  \A w \in Pipelines : \A v \in Pipelines \ {w} :
    (hf_uploaded[w] # NotUploaded /\ hf_html[v] # hf_html[w])
      => hf_uploaded[w] # hf_html[v]

====
